---------------------------- MODULE Spec2Model ----------------------------
(***************************************************************************)
(* Adaptive pacing and retry orchestration of the TikTok collection        *)
(* manager: RateLimitHandler (src/utils/rate_limiter.py), SessionManager   *)
(* (src/utils/session_manager.py), the history/metadata persistence        *)
(* (src/utils/logger.py), the disk gate (src/utils/config.py) and          *)
(* TikTokDownloader (src/downloader/video_downloader.py).                   *)
(*                                                                         *)
(* Modelling conventions                                                   *)
(*  - A delay is a Python number; it is modelled as an exact rational      *)
(*    <<numerator, denominator>> in lowest terms.                          *)
(*  - time.time() is an integer number of seconds.                         *)
(*  - An error text is a sequence of fragments; "x in text" is modelled    *)
(*    as "x is one of the fragments", and text.lower() lowers every        *)
(*    fragment by the table Lower.                                         *)
(***************************************************************************)
EXTENDS Integers, Sequences, FiniteSets, TLC

(***************************************************************************)
(* Bounds of the model                                                     *)
(***************************************************************************)
\* SpecRL makes up to MaxUpdates calls of update in any mix, and up to
\* MaxStreak calls as long as none of the earlier ones was a failure
MaxUpdates == 4
MaxStreak == 9

(***************************************************************************)
(* src/utils/config.py                                                     *)
(***************************************************************************)
INITIAL_DELAY == 4
MIN_DELAY == 2
MAX_DELAY == 30
RATE_LIMIT_WINDOW == 300
SUCCESS_STREAK_THRESHOLD == 3
TARGET_HOURLY_RATE == 80
\* literals of rate_limiter.py
HOUR == 3600
WARMUP_SPAN == 900
MIN_SAMPLES == 5

(***************************************************************************)
(* Numbers: exact rationals <<n, d>>, d > 0, in lowest terms               *)
(***************************************************************************)
RECURSIVE GCD(_, _)
GCD(a, b) == IF b = 0 THEN a ELSE GCD(b, a % b)

Norm(n, d) == LET g == GCD(n, d) IN <<n \div g, d \div g>>

Rat(i) == <<i, 1>>

\* r * (n / d)
Times(r, n, d) ==
    LET f == Norm(n, d) IN Norm(r[1] * f[1], r[2] * f[2])

Less(r, s) == r[1] * s[2] < s[1] * r[2]

Leq(r, s) == r[1] * s[2] <= s[1] * r[2]

\* Python min(a, b): b when b < a, else a
PyMin(a, b) == IF Less(b, a) THEN b ELSE a

\* Python max(a, b): b when b > a, else a
PyMax(a, b) == IF Less(a, b) THEN b ELSE a

(***************************************************************************)
(* Error texts                                                             *)
(***************************************************************************)
\* str.lower() on one fragment
Lower(w) ==
    CASE w = "NoneType" -> "nonetype"
      [] w = "SLIDESHOW" -> "slideshow"
      [] w = "Timeout" -> "timeout"
      [] w = "Blocked" -> "blocked"
      [] w = "Cookie" -> "cookie"
      [] w = "Permission" -> "permission"
      [] w = "HTTP Error" -> "http error"
      [] OTHER -> w

LowerText(text) == [i \in DOMAIN text |-> Lower(text[i])]

\* Python "ind in text"
Contains(text, ind) == \E i \in DOMAIN text : text[i] = ind

rate_limit_indicators ==
    {"too many requests", "429", "rate limit", "blocked", "timeout"}

content_related_errors ==
    {"NoneType", "unsupported operand", "slideshow", "index out of range"}

\* rate_limiter.py line 83
IsRateLimit(text) ==
    \E ind \in rate_limit_indicators : Contains(LowerText(text), ind)

\* rate_limiter.py line 88
IsContent(text) ==
    \E err \in content_related_errors : Contains(text, err)

\* a classification that tests the content indicators first
Classify_ContentFirst(text) ==
    IF IsContent(text) THEN "content"
    ELSE IF IsRateLimit(text) THEN "rate_limit"
    ELSE "generic"

\* the branch update takes for a failure
Classify(text) ==
    IF IsRateLimit(text) THEN "rate_limit"
    ELSE IF IsContent(text) THEN "content"
    ELSE "generic"


(***************************************************************************)
(* RateLimitHandler (src/utils/rate_limiter.py)                            *)
(*                                                                         *)
(* A handler is the record rl of its fields.  update and get_stats are     *)
(* operators from (rl, time.time(), arguments) to the record               *)
(* [rl |-> fields afterwards, raised |-> whether the call raised].         *)
(***************************************************************************)
\* RateLimitHandler.__init__
NewRateLimitHandler ==
    [failures |-> <<>>,
     current_delay |-> Rat(INITIAL_DELAY),
     consecutive_failures |-> 0,
     consecutive_successes |-> 0,
     hourly_downloads |-> <<>>,
     session_stats |-> [success_count |-> 0, failure_count |-> 0,
                        rate_limit_hits |-> 0]]

InFailureWindow(f, t) == t - f < RATE_LIMIT_WINDOW

\* line 58 left out
PruneFailures_Keep(failures, t) == failures

\* line 58
PruneFailures(failures, t) ==
    SelectSeq(failures, LAMBDA f : InFailureWindow(f, t))

InHourWindow(s, t) == s > t - HOUR

\* lines 29-31
PruneHourly(hourly, t) ==
    SelectSeq(hourly, LAMBDA s : InHourWindow(s, t))

\* min(self.hourly_downloads), the list being non-empty
SeqMin(s) == CHOOSE m \in {s[i] : i \in DOMAIN s} :
                 \A i \in DOMAIN s : m <= s[i]

\* line 41 divides by the age of the oldest sample: ZeroDivisionError when
\* that sample is as old as the clock reading
RateRaises(hourly, t) ==
    /\ Len(hourly) >= MIN_SAMPLES
    /\ t - SeqMin(hourly) = 0

\* lines 33-43 on the pruned list, when line 41 does not raise.
\* int(count * (3600 / elapsed)) is computed as the integer part of the
\* exact quotient.
HourlyRate(hourly, t) ==
    IF Len(hourly) < MIN_SAMPLES THEN TARGET_HOURLY_RATE
    ELSE LET elapsed == t - SeqMin(hourly) IN
         IF elapsed < WARMUP_SPAN
         THEN (Len(hourly) * HOUR) \div elapsed
         ELSE Len(hourly)

\* line 86 without the min(..., MAX_DELAY)
RateLimitBackoff_Uncapped(delay) == Times(delay, 2, 1)

\* line 86 with the factor of the generic branch
RateLimitBackoff_Gentle(delay) == PyMin(Times(delay, 3, 2), Rat(MAX_DELAY))

\* line 86
RateLimitBackoff(delay) == PyMin(Times(delay, 2, 1), Rat(MAX_DELAY))

\* lines 94-95 with a factor of one half
GenericBackoff_Halves(delay, consecutive_failures) ==
    PyMin(Times(delay, 1, 2), Rat(MAX_DELAY))

\* lines 94-95 with the multiplier fixed at 1
GenericBackoff_Fixed(delay, consecutive_failures) ==
    PyMin(Times(delay, 3, 2), Rat(MAX_DELAY))

\* lines 94-95: 1 + 0.5 * multiplier = (2 + multiplier) / 2
GenericBackoff(delay, consecutive_failures) ==
    LET multiplier == IF 3 < consecutive_failures THEN 3
                      ELSE consecutive_failures
    IN PyMin(Times(delay, 2 + multiplier, 2), Rat(MAX_DELAY))

\* lines 108-112 with the 5% of line 109 in every case
ReductionPercent_Flat(hourly_rate, consecutive_successes) == 5

\* lines 108-112, in percent
ReductionPercent(hourly_rate, consecutive_successes) ==
    IF hourly_rate > TARGET_HOURLY_RATE THEN 5
    ELSE IF consecutive_successes >= SUCCESS_STREAK_THRESHOLD THEN 15 ELSE 5

\* lines 116-119 without the max(MIN_DELAY, ...)
ReducedDelay_NoFloor(delay, percent) == Times(delay, 100 - percent, 100)

\* lines 116-119
ReducedDelay(delay, percent) ==
    PyMax(Rat(MIN_DELAY), Times(delay, 100 - percent, 100))

\* lines 61-64 without the count of line 62
RecordFailure_NoCount(rl, t) ==
    [rl EXCEPT !.failures = Append(PruneFailures(rl.failures, t), t),
               !.consecutive_failures = @ + 1,
               !.consecutive_successes = 0]

\* lines 61-64 without the reset of line 64
RecordFailure_KeepsStreak(rl, t) ==
    [rl EXCEPT !.failures = Append(PruneFailures(rl.failures, t), t),
               !.session_stats.failure_count = @ + 1,
               !.consecutive_failures = @ + 1]

\* lines 61-64
RecordFailure(rl, t) ==
    [rl EXCEPT !.failures = Append(PruneFailures(rl.failures, t), t),
               !.session_stats.failure_count = @ + 1,
               !.consecutive_failures = @ + 1,
               !.consecutive_successes = 0]

\* lines 88-91 without the reset of line 91
ContentFailure_NoReset(r) == r

\* lines 88-91, r being the fields after lines 61-64
ContentFailure(r) == [r EXCEPT !.consecutive_failures = 0]

\* lines 60-96
UpdateFailure(rl, t, error_message) ==
    LET r == RecordFailure(rl, t)
        kind == Classify(error_message)
    IN [raised |-> FALSE,
        rl |-> CASE kind = "rate_limit" ->
                      [r EXCEPT !.session_stats.rate_limit_hits = @ + 1,
                                !.current_delay = RateLimitBackoff(@)]
                 [] kind = "content" -> ContentFailure(r)
                 [] OTHER ->
                      [r EXCEPT !.current_delay =
                                  GenericBackoff(@, r.consecutive_failures)]]

\* lines 98-101 without the reset of line 100
RecordSuccess_KeepsFailures(rl, t) ==
    [rl EXCEPT !.failures = PruneFailures(@, t),
               !.session_stats.success_count = @ + 1,
               !.consecutive_successes = @ + 1,
               !.hourly_downloads = PruneHourly(Append(@, t), t)]

\* lines 98-101 and the pruning of _get_hourly_rate (line 31)
RecordSuccess(rl, t) ==
    [rl EXCEPT !.failures = PruneFailures(@, t),
               !.session_stats.success_count = @ + 1,
               !.consecutive_successes = @ + 1,
               !.consecutive_failures = 0,
               !.hourly_downloads = PruneHourly(Append(@, t), t)]

\* lines 97-123
UpdateSuccess(rl, t) ==
    LET r == RecordSuccess(rl, t)
        hourly_rate == HourlyRate(r.hourly_downloads, t)
    IN IF RateRaises(r.hourly_downloads, t)
       THEN [raised |-> TRUE, rl |-> r]
       ELSE [raised |-> FALSE,
             rl |-> IF /\ Len(r.hourly_downloads) >= MIN_SAMPLES
                       /\ r.consecutive_successes >= SUCCESS_STREAK_THRESHOLD
                    THEN [r EXCEPT !.current_delay =
                            ReducedDelay(@, ReductionPercent(hourly_rate,
                                               r.consecutive_successes))]
                    ELSE r]

\* RateLimitHandler.update
Update(rl, t, success, error_message) ==
    IF success THEN UpdateSuccess(rl, t)
    ELSE UpdateFailure(rl, t, error_message)

\* RateLimitHandler.get_stats: its only effect is the pruning of
\* _get_hourly_rate; it raises when the rate extrapolation does
GetStats(rl, t) ==
    LET r == [rl EXCEPT !.hourly_downloads = PruneHourly(@, t)]
    IN [raised |-> RateRaises(r.hourly_downloads, t),
        rl |-> r]

(***************************************************************************)
(* SessionManager (src/utils/session_manager.py)                           *)
(***************************************************************************)
\* the user agent of the default profile of _load_session_data
DefaultUserAgent == "Chrome/91"

\* the list of rotate_user_agent
user_agents == <<"Chrome/120", "Firefox/121", "Edg/120", "Mobile Chrome/120">>

\* line 107: list.index, 0-based, or -1
CurrentIndex(user_agent) ==
    IF \E k \in DOMAIN user_agents : user_agents[k] = user_agent
    THEN (CHOOSE k \in DOMAIN user_agents : user_agents[k] = user_agent) - 1
    ELSE -1

\* lines 108-109 without the wrap of line 108
RotateUserAgent_NoWrap(user_agent) ==
    LET next == CurrentIndex(user_agent) + 2
    IN user_agents[IF next > Len(user_agents) THEN Len(user_agents) ELSE next]

\* lines 108-109: the user agent after one rotation
RotateUserAgent(user_agent) ==
    user_agents[((CurrentIndex(user_agent) + 1) % Len(user_agents)) + 1]

\* a file: absent, or written with some content
AbsentFile == [state |-> "absent"]
Written(content) == [state |-> "written", content |-> content]

\* _load_session_data: the file's content, or the default profile
LoadSessionData(file) ==
    IF file.state = "written" THEN file.content ELSE DefaultUserAgent

(***************************************************************************)
(* TikTokDownloader (src/downloader/video_downloader.py): helpers          *)
(***************************************************************************)
\* an identity test that looks for 'permission' in lower case only
IsIdentityBlocked_CaseSensitive(text) ==
    Contains(text, "Cookie") \/ Contains(text, "permission")

\* lines 103 and 172
IsIdentityBlocked(text) ==
    Contains(text, "Cookie") \/ Contains(LowerText(text), "permission")

\* line 164
IsDownloadContentError(text) ==
    Contains(text, "NoneType") \/ Contains(text, "unsupported operand")

\* a report of the exhausted fetch that passes on a rate-limit error
MetadataFailedText_RateLimit == <<"HTTP Error", "429">>

\* line 137
MetadataFailedText ==
    <<"NoneType", "metadata", "slideshow", "non-standard content">>

\* str(TypeError) of line 143 / config.py line 76 when filesize is None
TypeErrorText == <<"unsupported operand", "int", "NoneType">>

\* str(ZeroDivisionError) of rate_limiter.py line 41
ZeroDivisionText == <<"float division by zero">>

\* metadata['filesize'] is None
NoneSize == -1

\* config.py line 60, in GB
MAX_DOWNLOADS_SIZE == 500

\* a check_disk_space that lets every file through
check_disk_space_Always(current_size, file_size) == TRUE

\* config.check_disk_space, current_size being the size of DOWNLOADS_DIR
check_disk_space(current_size, file_size) ==
    current_size + file_size <= MAX_DOWNLOADS_SIZE

\* a video map that keeps one entry for every occurrence of an id
VideoMapKeys_KeepsDuplicates(videos) == videos

\* lines 249-254: the keys of video_map, in insertion order
RECURSIVE VideoMapKeys(_)
VideoMapKeys(videos) ==
    IF videos = <<>> THEN <<>>
    ELSE LET front == VideoMapKeys(SubSeq(videos, 1, Len(videos) - 1))
             last == videos[Len(videos)]
         IN IF \E k \in DOMAIN front : front[k] = last
            THEN front ELSE Append(front, last)

\* lines 257-261
VideosToDownload(videos, history) ==
    SelectSeq(VideoMapKeys(videos), LAMBDA v : v \notin history)

\* a load_download_history that forgets what was saved
LoadDownloadHistory_Empty(file) == {}

\* load_download_history
LoadDownloadHistory(file) ==
    IF file.state = "written" THEN file.content ELSE {}

\* load_video_metadata
LoadVideoMetadata(file) ==
    IF file.state = "written" THEN file.content ELSE {}

(***************************************************************************)
(* Bounds and inputs of Spec                                               *)
(***************************************************************************)
\* top-level calls (process_videos, download_video) made in a behaviour
MaxCalls == 2
\* videos listed in one data export
MaxVideos == 3

VideoIds == {"v1", "v2"}

Seqs(S, n) == UNION {[1..k -> S] : k \in 0..n}

\* the lists of video ids a data export may hold
Exports == Seqs(VideoIds, MaxVideos)

\* filesize reported by extract_info, in GB, or None
FileSizes == {1, 3, NoneSize}

\* size of DOWNLOADS_DIR at the start, in GB
InitialUsage == 498

\* str(e) of the exceptions of extract_info and download
NetErrors ==
    { <<"HTTP Error", "429">>,
      <<"NoneType", "object">>,
      <<"slideshow">>,
      <<"Cookie", "expired">>,
      <<"Permission", "denied">>,
      <<"connection reset">> }

\* time.time() is read by update and get_stats only.  Between two updates
\* the downloader sleeps at most 30 + (2 + 4) + (2 + 4) seconds and makes at
\* most six calls of the external capability; in Spec every update reads the
\* clock ItemSeconds after the previous one.
ItemSeconds == 60
\* calls of extract_info or download that raise in a behaviour
MaxFaults == 3

NoVideo == "none"
NoMetadata == [filesize |-> NoneSize, fetched |-> FALSE]
NoOpts == [user_agent |-> "unset"]

(***************************************************************************)
(* State                                                                   *)
(***************************************************************************)
VARIABLES
    rate_limiter,       \* the RateLimitHandler's fields
    now,                \* the reading of time.time()
    ev,                 \* what the last step did: a call and its arguments
    pc,                 \* where the downloader is
    caller,             \* who called download_video: "batch" or "direct"
    result,             \* the value download_video returned
    calls,              \* top-level calls made so far
    faults,             \* calls of the external capability that raised
    session_data,       \* SessionManager.session_data['user_agent']
    session_file,       \* logs/session_data.json
    ydl_opts,           \* TikTokDownloader.ydl_opts
    download_history,   \* TikTokDownloader.download_history
    video_metadata,     \* TikTokDownloader.video_metadata (its keys)
    disk_history,       \* logs/download_history.json
    disk_metadata,      \* the metadata file
    disk_usage,         \* size of DOWNLOADS_DIR, in GB
    videos_to_download, \* process_videos: the keys of videos_to_download
    i,                  \* process_videos: items of it taken so far
    video_id,           \* download_video: video_id
    attempts,           \* _get_video_metadata: attempts
    last_error,         \* _get_video_metadata: last_error
    metadata,           \* download_video: metadata
    attempt,            \* download_video: attempt
    success,            \* download_video: success
    error_msg,          \* download_video: error_msg
    download_opts       \* download_video: download_opts

limiterVars == <<rate_limiter>>
sessionVars == <<session_data, session_file, ydl_opts>>
storeVars == <<download_history, video_metadata, disk_history, disk_metadata>>
batchVars == <<videos_to_download, i>>
metaVars == <<attempts, last_error>>
loadVars == <<attempt, success, error_msg, download_opts>>

vars == <<rate_limiter, now, ev, pc, caller, result, calls, faults, sessionVars,
          storeVars, disk_usage, batchVars, video_id, metaVars, metadata,
          loadVars>>

NoEvent == [op |-> "none"]

\* the state right after TikTokDownloader.__init__ on the given files
Constructed ==
    /\ rate_limiter = NewRateLimitHandler
    /\ session_data = LoadSessionData(session_file)
    /\ ydl_opts = [user_agent |-> LoadSessionData(session_file)]
    /\ download_history = LoadDownloadHistory(disk_history)
    /\ video_metadata = LoadVideoMetadata(disk_metadata)
    /\ pc = "idle"
    /\ caller = "none"
    /\ result = FALSE
    /\ videos_to_download = <<>>
    /\ i = 0
    /\ video_id = NoVideo
    /\ attempts = 0
    /\ last_error = <<>>
    /\ metadata = NoMetadata
    /\ attempt = 0
    /\ success = FALSE
    /\ error_msg = <<>>
    /\ download_opts = NoOpts

(***************************************************************************)
(* SpecRL: a RateLimitHandler driven by arbitrary calls                    *)
(***************************************************************************)
\* error texts handed to update
ErrorTexts ==
    { <<"HTTP Error", "429">>,
      <<"Timeout">>,
      <<"NoneType", "object">>,
      <<"nonetype">>,
      <<"429", "NoneType">>,
      <<"connection reset">> }

\* seconds between two calls
ClockSteps == {0, 100, 1200}

UpdateCalls(rl) ==
    rl.session_stats.success_count + rl.session_stats.failure_count

\* the variables of the downloader, which SpecRL leaves alone
downloaderVars ==
    <<pc, caller, result, faults, sessionVars, storeVars, disk_usage,
      batchVars, video_id, metaVars, metadata, loadVars>>

InitRL ==
    /\ session_file = AbsentFile
    /\ disk_history = AbsentFile
    /\ disk_metadata = AbsentFile
    /\ disk_usage = InitialUsage
    /\ calls = 0
    /\ faults = 0
    /\ now = 0
    /\ ev = NoEvent
    /\ Constructed

\* whether SpecRL makes one more call of update
MayUpdate(rl) ==
    \/ UpdateCalls(rl) < MaxUpdates
    \/ /\ rl.session_stats.failure_count = 0
       /\ rl.session_stats.success_count < MaxStreak

RLUpdate(ok, text, dt) ==
    /\ MayUpdate(rate_limiter)
    /\ LET res == Update(rate_limiter, now + dt, ok, text) IN
       /\ rate_limiter' = res.rl
       /\ ev' = [op |-> "update", success |-> ok, text |-> text,
                 raised |-> res.raised,
                 returns |-> res.rl.current_delay]
    /\ now' = now + dt
    /\ calls' = calls + 1
    /\ UNCHANGED downloaderVars

RLGetStats ==
    /\ ev.op = "update"
    /\ LET res == GetStats(rate_limiter, now) IN
       /\ rate_limiter' = res.rl
       /\ ev' = [op |-> "get_stats", raised |-> res.raised]
    /\ now' = now
    /\ UNCHANGED <<calls, downloaderVars>>

NextRL ==
    \/ \E dt \in ClockSteps : RLUpdate(TRUE, <<>>, dt)
    \/ \E dt \in ClockSteps : \E text \in ErrorTexts : RLUpdate(FALSE, text, dt)
    \/ RLGetStats

SpecRL == InitRL /\ [][NextRL]_vars

(***************************************************************************)
(* SpecSM: a SessionManager driven by arbitrary calls                      *)
(***************************************************************************)
\* calls of rotate_user_agent in a behaviour
MaxRotations == 12

\* logs/session_data.json as an earlier process may have left it
SessionFiles ==
    {AbsentFile, Written(DefaultUserAgent)}
        \cup {Written(user_agents[k]) : k \in DOMAIN user_agents}

InitSM ==
    /\ session_file \in SessionFiles
    /\ disk_history = AbsentFile
    /\ disk_metadata = AbsentFile
    /\ disk_usage = InitialUsage
    /\ calls = 0
    /\ faults = 0
    /\ now = 0
    /\ ev = NoEvent
    /\ Constructed

\* SessionManager.rotate_user_agent
SMRotate ==
    /\ calls < MaxRotations
    /\ calls' = calls + 1
    /\ session_data' = RotateUserAgent(session_data)
    /\ session_file' = Written(session_data')
    /\ ev' = [op |-> "rotate", from |-> session_data]
    /\ UNCHANGED <<limiterVars, now, pc, caller, result, faults, ydl_opts,
                   storeVars, disk_usage, batchVars, video_id, metaVars,
                   metadata, loadVars>>

\* SessionManager.__init__ in a new process
SMLoad ==
    /\ ev.op # "load"
    /\ session_data' = LoadSessionData(session_file)
    /\ ev' = [op |-> "load"]
    /\ UNCHANGED <<limiterVars, now, pc, caller, result, calls, faults,
                   session_file, ydl_opts, storeVars, disk_usage, batchVars,
                   video_id, metaVars, metadata, loadVars>>

NextSM == SMRotate \/ SMLoad

SpecSM == InitSM /\ [][NextSM]_vars

(***************************************************************************)
(* Spec: the downloader                                                    *)
(***************************************************************************)
\* logger.handlers of the module logger of src/utils/logger.py:
\* logging.basicConfig installs its handler on the root logger, so the
\* list is empty
LoggerHandlers == <<>>

Init ==
    /\ session_file = AbsentFile
    /\ disk_history = AbsentFile
    /\ disk_metadata = AbsentFile
    /\ disk_usage = InitialUsage
    /\ calls = 0
    /\ faults = 0
    /\ now = 0
    /\ ev = NoEvent
    /\ Constructed

\* the locals of download_video and _get_video_metadata go with the frame
PopFrame ==
    /\ attempts' = 0
    /\ last_error' = <<>>
    /\ metadata' = NoMetadata
    /\ attempt' = 0
    /\ success' = FALSE
    /\ error_msg' = <<>>
    /\ download_opts' = NoOpts

\* download_video returns r to its caller
Return(r) ==
    /\ PopFrame
    /\ IF caller = "batch"
       THEN /\ pc' = "returned"
            /\ result' = r
            /\ UNCHANGED <<caller, video_id>>
       ELSE /\ pc' = "idle"
            /\ result' = r
            /\ caller' = "none"
            /\ video_id' = NoVideo

\* download_video without the history check of lines 124-126
EnterDownloadVideo_NoCheck(id, from) ==
    /\ ev' = [op |-> "download_video", id |-> id, skipped |-> FALSE]
    /\ pc' = "metadata"
    /\ video_id' = id
    /\ caller' = from
    /\ UNCHANGED result

\* download_video lines 119-126: the history check at its entry
EnterDownloadVideo(id, from) ==
    IF id \in download_history
    THEN /\ ev' = [op |-> "download_video", id |-> id, skipped |-> TRUE]
         /\ result' = TRUE
         /\ IF from = "batch"
            THEN pc' = "returned" /\ video_id' = id /\ caller' = from
            ELSE pc' = "idle" /\ video_id' = NoVideo /\ caller' = "none"
    ELSE /\ ev' = [op |-> "download_video", id |-> id, skipped |-> FALSE]
         /\ pc' = "metadata"
         /\ video_id' = id
         /\ caller' = from
         /\ UNCHANGED result

\* process_videos lines 233-270
ProcessVideos(videos) ==
    /\ pc = "idle"
    /\ calls < MaxCalls
    /\ calls' = calls + 1
    /\ LET todo == VideosToDownload(videos, download_history) IN
       IF todo = <<>>
       THEN /\ ev' = [op |-> "process_videos", videos |-> videos,
                      new |-> 0]
            /\ UNCHANGED <<pc, caller, batchVars>>
       ELSE /\ ev' = [op |-> "process_videos", videos |-> videos,
                      new |-> Len(todo)]
            /\ pc' = "loop"
            /\ caller' = "batch"
            /\ videos_to_download' = todo
            /\ i' = 0
    /\ UNCHANGED <<limiterVars, now, result, faults, sessionVars, storeVars,
                   disk_usage, video_id, metaVars, metadata, loadVars>>

\* process_videos lines 273-278: the next item, and download_video's entry
BeginItem ==
    /\ pc = "loop"
    /\ i < Len(videos_to_download)
    /\ i' = i + 1
    /\ EnterDownloadVideo(videos_to_download[i + 1], "batch")
    /\ UNCHANGED <<limiterVars, now, calls, faults, sessionVars, storeVars,
                   disk_usage, videos_to_download, metaVars, metadata,
                   loadVars>>

\* a caller other than process_videos calls download_video
CallDownloadVideo(id) ==
    /\ pc = "idle"
    /\ calls < MaxCalls
    /\ calls' = calls + 1
    /\ EnterDownloadVideo(id, "direct")
    /\ UNCHANGED <<limiterVars, now, faults, sessionVars, storeVars,
                   disk_usage, batchVars, metaVars, metadata, loadVars>>

\* _get_video_metadata lines 79-101: one call of extract_info
ExtractInfo ==
    /\ pc = "metadata"
    /\ \/ \E size \in FileSizes :
            /\ ev' = [op |-> "extract_info", id |-> video_id,
                      user_agent |-> ydl_opts.user_agent, ok |-> TRUE]
            /\ metadata' = [filesize |-> size, fetched |-> TRUE]
            /\ attempts' = 0
            /\ last_error' = <<>>
            /\ pc' = "disk_check"
            /\ UNCHANGED faults
       \/ \E err \in NetErrors :
            /\ faults < MaxFaults
            /\ faults' = faults + 1
            /\ ev' = [op |-> "extract_info", id |-> video_id,
                      user_agent |-> ydl_opts.user_agent, ok |-> FALSE]
            /\ last_error' = err
            /\ attempts' = attempts + 1
            /\ pc' = "metadata_except"
            /\ UNCHANGED metadata
    /\ UNCHANGED <<limiterVars, now, caller, result, calls, sessionVars,
                   storeVars, disk_usage, batchVars, video_id, loadVars>>

\* SessionManager.rotate_user_agent and the refresh of the given options
Rotate(refreshes_ydl_opts) ==
    LET next == RotateUserAgent(session_data) IN
    /\ session_data' = next
    /\ session_file' = Written(next)
    /\ IF refreshes_ydl_opts
       THEN ydl_opts' = [user_agent |-> next] /\ UNCHANGED download_opts
       ELSE download_opts' = [user_agent |-> next] /\ UNCHANGED ydl_opts

\* a metadata retry that always waits two seconds
MetadataRetryDelay_Fixed(failed) == Rat(2)

\* _get_video_metadata line 109: delay = 2 ** attempts
MetadataRetryDelay(failed) == Rat(2 ^ failed)

\* a download retry that always waits two seconds
DownloadRetryDelay_Fixed(number) == Rat(2)

\* download_video line 172: delay = 2 ** (attempt + 1)
DownloadRetryDelay(number) == Rat(2 ^ (number + 1))

\* a retry handler that reports the failed attempt to the rate limiter
RetryFeedsLimiter ==
    rate_limiter' =
        UpdateFailure(rate_limiter, now,
                      IF pc = "metadata_except" THEN last_error
                      ELSE error_msg).rl

\* lines 99-113 and 162-176: the handlers of a failed attempt make no call
\* of rate_limiter.update
RetryLeavesLimiter == UNCHANGED limiterVars

\* _get_video_metadata lines 103-113: the handler of a failed attempt
MetadataExcept ==
    /\ pc = "metadata_except"
    /\ IF IsIdentityBlocked(last_error)
       THEN Rotate(TRUE)
       ELSE UNCHANGED <<sessionVars, download_opts>>
    /\ IF attempts < 3
       THEN /\ ev' = [op |-> "sleep", secs |-> MetadataRetryDelay(attempts),
                      why |-> "metadata retry"]
            /\ pc' = "metadata"
       ELSE /\ ev' = [op |-> "log", what |-> "metadata failed"]
            /\ pc' = "metadata_failed"
    /\ RetryLeavesLimiter
    /\ UNCHANGED <<now, caller, result, calls, faults, storeVars,
                   disk_usage, batchVars, video_id, metaVars, metadata,
                   attempt, success, error_msg>>

\* download_video lines 135-139
MetadataFailed ==
    /\ pc = "metadata_failed"
    /\ now' = now + ItemSeconds
    /\ rate_limiter' = UpdateFailure(rate_limiter, now', MetadataFailedText).rl
    /\ ev' = [op |-> "update", success |-> FALSE,
              text |-> MetadataFailedText, raised |-> FALSE,
              returns |-> rate_limiter'.current_delay]
    /\ Return(FALSE)
    /\ UNCHANGED <<calls, faults, sessionVars, storeVars, disk_usage,
                   batchVars>>

\* download_video lines 141-154, and 201-212 when line 143 raises
CheckDisk ==
    /\ pc = "disk_check"
    /\ IF metadata.filesize = NoneSize
       THEN /\ now' = now + ItemSeconds
            /\ rate_limiter' =
                   UpdateFailure(rate_limiter, now', TypeErrorText).rl
            /\ ev' = [op |-> "update", success |-> FALSE,
                      text |-> TypeErrorText, raised |-> FALSE,
                      returns |-> rate_limiter'.current_delay]
            /\ Return(FALSE)
       ELSE IF check_disk_space(disk_usage, metadata.filesize)
       THEN /\ ev' = [op |-> "disk_check", id |-> video_id, ok |-> TRUE]
            /\ pc' = "download"
            /\ download_opts' = ydl_opts
            /\ attempt' = 0
            /\ success' = FALSE
            /\ error_msg' = <<>>
            /\ UNCHANGED <<limiterVars, now, caller, result, video_id,
                           metaVars, metadata>>
       ELSE /\ ev' = [op |-> "disk_check", id |-> video_id, ok |-> FALSE]
            /\ Return(FALSE)
            /\ UNCHANGED <<limiterVars, now>>
    /\ UNCHANGED <<calls, faults, sessionVars, storeVars, disk_usage,
                   batchVars>>

\* download_video lines 156-163: one call of download
Download ==
    /\ pc = "download"
    /\ \/ /\ ev' = [op |-> "download", id |-> video_id,
                    user_agent |-> download_opts.user_agent, ok |-> TRUE]
          /\ success' = TRUE
          /\ disk_usage' = disk_usage + metadata.filesize
          /\ pc' = "update"
          /\ UNCHANGED <<error_msg, faults>>
       \/ \E err \in NetErrors :
            /\ faults < MaxFaults
            /\ faults' = faults + 1
            /\ ev' = [op |-> "download", id |-> video_id,
                      user_agent |-> download_opts.user_agent, ok |-> FALSE]
            /\ error_msg' = err
            /\ pc' = "download_except"
            /\ UNCHANGED <<success, disk_usage>>
    /\ UNCHANGED <<limiterVars, now, caller, result, calls, sessionVars,
                   storeVars, batchVars, video_id, metaVars, metadata,
                   attempt, download_opts>>

\* download_video lines 164-176: the handler of a failed attempt
DownloadExcept ==
    /\ pc = "download_except"
    /\ IF IsDownloadContentError(error_msg)
       THEN /\ ev' = [op |-> "log", what |-> "non-standard content"]
            /\ pc' = "update"
            /\ UNCHANGED <<attempt, sessionVars, download_opts>>
       ELSE IF attempt < 3 - 1
       THEN /\ IF IsIdentityBlocked(error_msg)
               THEN Rotate(FALSE)
               ELSE UNCHANGED <<sessionVars, download_opts>>
            /\ ev' = [op |-> "sleep", secs |-> DownloadRetryDelay(attempt),
                      why |-> "download retry"]
            /\ attempt' = attempt + 1
            /\ pc' = "download"
       ELSE /\ ev' = [op |-> "log", what |-> "download failed"]
            /\ pc' = "update"
            /\ UNCHANGED <<attempt, sessionVars, download_opts>>
    /\ RetryLeavesLimiter
    /\ UNCHANGED <<now, caller, result, calls, faults,
                   storeVars, disk_usage, batchVars, video_id, metaVars,
                   metadata, success, error_msg>>

\* a history that keeps the last id only
HistoryAdd_Replace(history, id) == {id}

\* download_video line 183: self.download_history.add(video_id)
HistoryAdd(history, id) == history \cup {id}

\* download_video lines 178-184 and 199; 201-212 when update raises
UpdateLimiter ==
    /\ pc = "update"
    /\ now' = now + ItemSeconds
    /\ LET res == Update(rate_limiter, now', success, error_msg) IN
       IF res.raised
       THEN /\ rate_limiter' =
                   UpdateFailure(res.rl, now', ZeroDivisionText).rl
            /\ ev' = [op |-> "update", success |-> FALSE,
                      text |-> ZeroDivisionText, raised |-> FALSE,
                      returns |-> rate_limiter'.current_delay]
            /\ Return(FALSE)
            /\ UNCHANGED <<download_history, video_metadata>>
       ELSE /\ rate_limiter' = res.rl
            /\ ev' = [op |-> "update", success |-> success,
                      text |-> error_msg, raised |-> FALSE,
                      returns |-> res.rl.current_delay]
            /\ IF success
               THEN /\ download_history' = HistoryAdd(download_history, video_id)
                    /\ video_metadata' = video_metadata \cup {video_id}
                    /\ pc' = "save_history"
                    /\ UNCHANGED <<caller, result, video_id, metaVars,
                                   metadata, loadVars>>
               ELSE /\ Return(FALSE)
                    /\ UNCHANGED <<download_history, video_metadata>>
    /\ UNCHANGED <<calls, faults, sessionVars, disk_history, disk_metadata,
                   disk_usage, batchVars>>

\* a download_video that skips line 187
SaveHistory_Skipped ==
    /\ pc = "save_history"
    /\ ev' = [op |-> "log", what |-> "history kept in memory"]
    /\ pc' = "save_metadata"
    /\ UNCHANGED <<limiterVars, now, caller, result, calls, faults,
                   sessionVars, storeVars, disk_usage, batchVars, video_id,
                   metaVars, metadata, loadVars>>

\* download_video line 187: save_download_history
SaveHistory ==
    /\ pc = "save_history"
    /\ disk_history' = Written(download_history)
    /\ ev' = [op |-> "save_download_history"]
    /\ pc' = "save_metadata"
    /\ UNCHANGED <<limiterVars, now, caller, result, calls, faults, sessionVars,
                   download_history, video_metadata, disk_metadata,
                   disk_usage, batchVars, video_id, metaVars, metadata,
                   loadVars>>

\* download_video line 188: save_video_metadata
SaveMetadata ==
    /\ pc = "save_metadata"
    /\ disk_metadata' = Written(video_metadata)
    /\ ev' = [op |-> "save_video_metadata"]
    /\ pc' = "post_success"
    /\ UNCHANGED <<limiterVars, now, caller, result, calls, faults, sessionVars,
                   download_history, video_metadata, disk_history,
                   disk_usage, batchVars, video_id, metaVars, metadata,
                   loadVars>>

\* a precaution taken every fifth success
RotationDue_EveryFifth(success_count) == success_count % 5 = 0

\* download_video line 193: stats['success_count'] % 10 == 0
RotationDue(success_count) == success_count % 10 = 0

\* download_video lines 190-198; 201-212 when get_stats raises
PostSuccess ==
    /\ pc = "post_success"
    /\ LET res == GetStats(rate_limiter, now) IN
       IF res.raised
       THEN /\ rate_limiter' =
                   UpdateFailure(res.rl, now, ZeroDivisionText).rl
            /\ ev' = [op |-> "update", success |-> FALSE,
                      text |-> ZeroDivisionText, raised |-> FALSE,
                      returns |-> rate_limiter'.current_delay]
            /\ Return(FALSE)
            /\ UNCHANGED sessionVars
       ELSE /\ rate_limiter' = res.rl
            /\ ev' = [op |-> "get_stats", raised |-> FALSE]
            /\ IF RotationDue(res.rl.session_stats.success_count)
               THEN /\ session_data' = RotateUserAgent(session_data)
                    /\ session_file' = Written(RotateUserAgent(session_data))
                    /\ ydl_opts' =
                          [user_agent |-> RotateUserAgent(session_data)]
               ELSE UNCHANGED sessionVars
            /\ Return(TRUE)
    /\ UNCHANGED <<now, calls, faults, storeVars, disk_usage, batchVars>>

\* a loop that leaves at the first item that failed
AfterItem_StopsOnFailure ==
    /\ pc = "returned"
    /\ ev' = [op |-> "log", what |-> "stopping"]
    /\ pc' = IF result /\ i < Len(videos_to_download) THEN "loop" ELSE "stats"
    /\ UNCHANGED <<limiterVars, now, caller, result, calls, faults,
                   sessionVars, storeVars, disk_usage, batchVars, video_id,
                   metaVars, metadata, loadVars>>

\* process_videos lines 279-292: what the loop does with the return value
AfterItem ==
    /\ pc = "returned"
    /\ IF result
       THEN LET res == GetStats(rate_limiter, now) IN
            /\ rate_limiter' = res.rl
            /\ IF res.raised
               THEN /\ ev' = [op |-> "log", what |-> "ZeroDivisionError"]
                    /\ UNCHANGED now
               ELSE /\ ev' = [op |-> "sleep",
                              secs |-> res.rl.current_delay,
                              why |-> "pacing"]
                    /\ UNCHANGED now
            /\ pc' = IF i < Len(videos_to_download) THEN "loop" ELSE "stats"
       ELSE IF Len(LoggerHandlers) = 0
       THEN \* logger.handlers[0] raises IndexError, caught at line 290
            /\ ev' = [op |-> "log", what |-> "IndexError"]
            /\ pc' = IF i < Len(videos_to_download) THEN "loop" ELSE "stats"
            /\ UNCHANGED <<limiterVars, now>>
       ELSE \* line 281 finds "disk space" in the last record: break
            /\ ev' = [op |-> "log", what |-> "stopping"]
            /\ pc' = IF ev.op = "disk_check" \/ i = Len(videos_to_download)
                     THEN "stats" ELSE "loop"
            /\ UNCHANGED <<limiterVars, now>>
    /\ UNCHANGED <<caller, result, calls, faults, sessionVars, storeVars,
                   disk_usage, batchVars, video_id, metaVars, metadata,
                   loadVars>>

\* a process_videos that ends without lines 294-299
FinishBatch_Silent ==
    /\ pc = "stats"
    /\ ev' = [op |-> "log", what |-> "done"]
    /\ pc' = "idle"
    /\ caller' = "none"
    /\ result' = FALSE
    /\ video_id' = NoVideo
    /\ videos_to_download' = <<>>
    /\ i' = 0
    /\ UNCHANGED <<limiterVars, now, calls, faults, sessionVars, storeVars,
                   disk_usage, metaVars, metadata, loadVars>>

\* process_videos lines 294-303: the final statistics
FinishBatch ==
    /\ pc = "stats"
    /\ LET res == GetStats(rate_limiter, now) IN
       /\ rate_limiter' = res.rl
       /\ ev' = IF res.raised
                THEN [op |-> "log", what |-> "Failed to process"]
                ELSE [op |-> "final_stats", stats |-> res.rl.session_stats]
    /\ pc' = "idle"
    /\ caller' = "none"
    /\ result' = FALSE
    /\ video_id' = NoVideo
    /\ videos_to_download' = <<>>
    /\ i' = 0
    /\ UNCHANGED <<now, calls, faults, sessionVars, storeVars, disk_usage,
                   metaVars, metadata, loadVars>>

\* the process ends and a new one constructs a TikTokDownloader
\* (__init__ lines 31-35 and 48)
Restart ==
    /\ pc = "idle"
    /\ calls < MaxCalls
    /\ ev.op # "restart"
    /\ ev' = [op |-> "restart"]
    /\ rate_limiter' = NewRateLimitHandler
    /\ session_data' = LoadSessionData(session_file)
    /\ ydl_opts' = [user_agent |-> LoadSessionData(session_file)]
    /\ download_history' = LoadDownloadHistory(disk_history)
    /\ video_metadata' = LoadVideoMetadata(disk_metadata)
    /\ result' = FALSE
    /\ UNCHANGED <<now, pc, caller, calls, faults, session_file, disk_history,
                   disk_metadata, disk_usage, batchVars, video_id,
                   metaVars, metadata, loadVars>>

Next ==
    \/ \E videos \in Exports : ProcessVideos(videos)
    \/ \E id \in VideoIds : CallDownloadVideo(id)
    \/ BeginItem
    \/ ExtractInfo
    \/ MetadataExcept
    \/ MetadataFailed
    \/ CheckDisk
    \/ Download
    \/ DownloadExcept
    \/ UpdateLimiter
    \/ SaveHistory
    \/ SaveMetadata
    \/ PostSuccess
    \/ AfterItem
    \/ FinishBatch
    \/ Restart

Spec == Init /\ [][Next]_vars

(***************************************************************************)
(* One long batch: a process that is given an export of LongVideos new     *)
(* videos of 1 GB each, with an empty downloads directory                  *)
(***************************************************************************)
LongVideos == 11

LongExport == [k \in 1..LongVideos |-> ToString(k)]

\* TikTokDownloader.__init__ with no saved state and nothing downloaded
InitLong ==
    /\ session_file = AbsentFile
    /\ disk_history = AbsentFile
    /\ disk_metadata = AbsentFile
    /\ disk_usage = 0
    /\ calls = 0
    /\ faults = 0
    /\ now = 0
    /\ ev = NoEvent
    /\ Constructed

\* extract_info on a video whose metadata holds a file size of 1 GB
ExtractInfoLong == ExtractInfo /\ (ev'.ok => metadata'.filesize = 1)

NextLong ==
    \/ ProcessVideos(LongExport)
    \/ BeginItem
    \/ ExtractInfoLong
    \/ MetadataExcept
    \/ MetadataFailed
    \/ CheckDisk
    \/ Download
    \/ DownloadExcept
    \/ UpdateLimiter
    \/ SaveHistory
    \/ SaveMetadata
    \/ PostSuccess
    \/ AfterItem
    \/ FinishBatch

SpecLong == InitLong /\ [][NextLong]_vars

\* the steps of a call that is under way: process_videos and download_video
\* run on one thread, every sleep is finite and every call of the external
\* capability returns or raises, so a call that started takes its next step
RunStep ==
    \/ BeginItem
    \/ ExtractInfo
    \/ MetadataExcept
    \/ MetadataFailed
    \/ CheckDisk
    \/ Download
    \/ DownloadExcept
    \/ UpdateLimiter
    \/ SaveHistory
    \/ SaveMetadata
    \/ PostSuccess
    \/ AfterItem
    \/ FinishBatch

FairSpec == Spec /\ WF_vars(RunStep)

(***************************************************************************)
(* SpecCrash: the downloader, with runs that are interrupted               *)
(***************************************************************************)
\* logger.py line 46: open(DOWNLOAD_HISTORY, 'w') has emptied the file and
\* json.dump has not written the list, or not all of it
TruncatedFile == [state |-> "truncated"]

\* the process is gone, and with it everything it held in memory; a new
\* process runs TikTokDownloader.__init__ on the files as they are.
\* load_download_history (logger.py lines 39-41) passes on the
\* JSONDecodeError of a truncated history file, and __init__ fails with it;
\* load_video_metadata (lines 51-57) catches it and returns {}
NextProcess(history_file, metadata_file) ==
    /\ rate_limiter' = NewRateLimitHandler
    /\ session_data' = LoadSessionData(session_file)
    /\ ydl_opts' = [user_agent |-> LoadSessionData(session_file)]
    /\ download_history' = LoadDownloadHistory(history_file)
    /\ video_metadata' = LoadVideoMetadata(metadata_file)
    /\ pc' = IF history_file.state = "truncated" THEN "init_failed"
             ELSE "idle"
    /\ caller' = "none"
    /\ result' = FALSE
    /\ videos_to_download' = <<>>
    /\ i' = 0
    /\ video_id' = NoVideo
    /\ PopFrame
    /\ UNCHANGED <<now, calls, faults, session_file, disk_usage>>

\* the process is interrupted between two steps of a run
Interrupt ==
    /\ pc \notin {"idle", "init_failed"}
    /\ ev' = [op |-> "interrupt", at |-> pc]
    /\ NextProcess(disk_history, disk_metadata)
    /\ UNCHANGED <<disk_history, disk_metadata>>

\* the process is interrupted inside save_download_history, after line 46
\* opened the file for writing
InterruptInSaveHistory ==
    /\ pc = "save_history"
    /\ ev' = [op |-> "interrupt", at |-> "open(DOWNLOAD_HISTORY, 'w')"]
    /\ disk_history' = TruncatedFile
    /\ NextProcess(TruncatedFile, disk_metadata)
    /\ UNCHANGED disk_metadata

\* the process is interrupted inside save_video_metadata, after line 62
\* opened the file for writing
InterruptInSaveMetadata ==
    /\ pc = "save_metadata"
    /\ ev' = [op |-> "interrupt", at |-> "open(metadata_file, 'w')"]
    /\ disk_metadata' = TruncatedFile
    /\ NextProcess(disk_history, TruncatedFile)
    /\ UNCHANGED disk_history

NextCrash ==
    \/ Next
    \/ Interrupt
    \/ InterruptInSaveHistory
    \/ InterruptInSaveMetadata

SpecCrash == Init /\ [][NextCrash]_vars

(***************************************************************************)
(* Properties                                                              *)
(***************************************************************************)
Delay == rate_limiter.current_delay
Stats == rate_limiter.session_stats

\* a step of SpecRL or Spec that called update(False, text)
FailureUpdateStep == ev'.op = "update" /\ ~ev'.success /\ ~ev'.raised

\* the text matches one of the five rate-limit indicators, in any case
NamesRateLimit(text) ==
    \E k \in DOMAIN text :
        Lower(text[k]) \in {"too many requests", "429", "rate limit",
                            "blocked", "timeout"}

\* C1: for any sequence of update calls starting from INITIAL_DELAY,
\* current_delay stays within [MIN_DELAY, MAX_DELAY] in every reachable state.
C1_DelayWithinBounds ==
    /\ Leq(Rat(MIN_DELAY), Delay)
    /\ Leq(Delay, Rat(MAX_DELAY))

\* C1 witness: a success update whose reduction was floored at MIN_DELAY,
\* after a streak that had lowered the delay step by step.
C1_Witness ==
    /\ ev.op = "update"
    /\ ev.success
    /\ Delay = Rat(MIN_DELAY)
    /\ Stats.success_count = 9

\* a step that calls the external capability: extract_info or download
NetworkAttempt == ev'.op \in {"extract_info", "download"}

\* C2 (the claim as stated): after every item the batch driver processed,
\* ended in Success or in Failed, the driver's next step sleeps the
\* current_delay its update call returned, before the next item starts.
C2_SleepAfterEveryItem ==
    [][(pc = "returned" /\ (result \/ ev.op = "update")) =>
         /\ ev'.op = "sleep"
         /\ ev'.why = "pacing"
         /\ ev'.secs = Delay]_vars

\* C2: a failed item whose rate-limited failure doubled the delay to 8 is
\* followed by the next item without any sleep.
C2_Witness ==
    /\ pc = "loop"
    /\ ev.op = "log"
    /\ ev.what = "IndexError"
    /\ i < Len(videos_to_download)
    /\ Stats.rate_limit_hits = 1
    /\ Delay = Rat(8)

\* C3 (the claim as stated): when the disk-capacity gate fails for an item,
\* the batch driver stops the whole batch: its next step leaves the loop, so
\* no later item gets a metadata-fetch or download attempt.
C3_DiskFailureStopsBatch ==
    [][(pc = "returned" /\ ev.op = "disk_check" /\ ~ev.ok) =>
         pc' = "stats"]_vars

\* C3: the first item of a batch failed the disk gate (no update call was
\* made, nothing was downloaded) and the driver is about to take the second.
C3_Witness ==
    /\ pc = "loop"
    /\ i = 1
    /\ i < Len(videos_to_download)
    /\ ev.op = "log"
    /\ UpdateCalls(rate_limiter) = 0
    /\ faults = 0
    /\ disk_usage = InitialUsage

\* C4: the disk-capacity check runs right after the metadata fetch succeeded
\* and before the first download attempt; if usage plus filesize exceeds the
\* cap the check fails and download_video returns without a download attempt;
\* every download attempt is for an item whose check passed.
C4_DiskGateBeforeDownload ==
    [][/\ (ev'.op = "disk_check" =>
             /\ ev.op = "extract_info" /\ ev.ok /\ ev.id = ev'.id
             /\ metadata.fetched
             /\ attempt = 0)
       /\ ((pc = "disk_check" /\ metadata.filesize # NoneSize
              /\ disk_usage + metadata.filesize > MAX_DOWNLOADS_SIZE) =>
             /\ ev'.op = "disk_check" /\ ~ev'.ok
             /\ pc' \in {"returned", "idle"}
             /\ ~result')
       /\ ((pc' = "download" /\ pc \notin {"download", "download_except"}) =>
             ev'.op = "disk_check" /\ ev'.ok)
       /\ (ev'.op = "download" =>
             /\ pc = "download"
             /\ metadata.fetched
             /\ metadata.filesize # NoneSize
             /\ disk_usage + metadata.filesize <= MAX_DOWNLOADS_SIZE)]_vars

\* C4 witness: an item failed the disk gate after an earlier item had passed
\* it and had been downloaded.
C4_Witness ==
    /\ ev.op = "disk_check"
    /\ ~ev.ok
    /\ disk_usage > InitialUsage
    /\ Stats.success_count = 1

\* C5 (the claim as stated): every rate-limited error that is retried locally
\* is recorded by the rate limiter as a delay-doubling event.
C5_RetriesFeedPacing ==
    [][((pc = "metadata_except" /\ attempts < 3 /\ IsRateLimit(last_error))
        \/ (pc = "download_except" /\ attempt < 2 /\ IsRateLimit(error_msg)))
       => /\ Stats'.rate_limit_hits = Stats.rate_limit_hits + 1
          /\ Delay' = RateLimitBackoff(Delay)]_vars

\* C5 (amended): no delay-doubling event is recorded during the local retries
\* of an item: the steps of the metadata fetch and of the download, and their
\* retry handlers, leave the rate limiter unchanged; update is called once
\* with the item's final outcome, and for a successful item it leaves
\* rate_limit_hits unchanged and does not raise current_delay.
C5_RetriesLeavePacing ==
    [][/\ (pc \in {"metadata", "metadata_except", "download",
                   "download_except"} => rate_limiter' = rate_limiter)
       /\ ((ev'.op = "update" /\ ev'.success) =>
             /\ Stats'.rate_limit_hits = Stats.rate_limit_hits
             /\ Leq(Delay', Delay))]_vars

\* C5 witness: the first item's metadata fetch got a rate-limit error on its
\* first two attempts and is about to make the third; nothing was recorded.
C5_Witness ==
    /\ pc = "metadata"
    /\ attempts = 2
    /\ faults = 2
    /\ IsRateLimit(last_error)
    /\ ev.op = "sleep"
    /\ Stats.rate_limit_hits = 0
    /\ Stats.failure_count = 0
    /\ Delay = Rat(INITIAL_DELAY)

\* C6: within one batch no id is listed twice in the items to process, and no
\* metadata-fetch or download call is ever made for an id that is in the
\* history, in memory or as persisted by an earlier run.
C6_Idempotent ==
    /\ \A a, b \in DOMAIN videos_to_download :
          a # b => videos_to_download[a] # videos_to_download[b]
    /\ (ev.op \in {"extract_info", "download"} =>
          /\ ev.id \notin download_history
          /\ (disk_history.state = "written" =>
                ev.id \notin disk_history.content))

\* C6 witness: a batch started by a new process on a persisted history, with
\* an export of three entries of which one id is new.
C6_Witness ==
    /\ ev.op = "process_videos"
    /\ Len(ev.videos) = 3
    /\ ev.new = 1
    /\ pc = "loop"
    /\ disk_history.state = "written"
    /\ download_history # {}
    /\ UpdateCalls(rate_limiter) = 0

\* C7: download_video called for an id in the history returns True without a
\* metadata-fetch or download call and leaves the rate limiter (delay and
\* session counters), the session, the history and the metadata store
\* unchanged; every network attempt is for an id the check found absent.
C7_HistoryGate ==
    [][/\ ((ev'.op = "download_video" /\ ev'.id \in download_history) =>
             /\ ev'.skipped
             /\ result'
             /\ pc' \in {"idle", "returned"}
             /\ UNCHANGED <<rate_limiter, sessionVars, storeVars, disk_usage,
                            faults, now>>)
       /\ (NetworkAttempt =>
             /\ ev'.id = video_id
             /\ video_id \notin download_history)
       /\ (pc' = "metadata" /\ pc \notin {"metadata", "metadata_except"} =>
             ev'.op = "download_video" /\ ~ev'.skipped)]_vars

\* C7 witness: a direct call for a downloaded id returned True.
C7_Witness ==
    /\ ev.op = "download_video"
    /\ ev.skipped
    /\ ev.id \in download_history
    /\ result
    /\ pc = "idle"
    /\ Stats.success_count = 1

\* a step that ends an item's workflow with its outcome
TerminalStep ==
    \/ pc \in {"metadata_failed", "update"}
    \/ pc = "disk_check" /\ pc' # "download"

\* C8 (the claim as stated): every terminal outcome of an item increments
\* exactly one of success_count, failure_count, rate_limit_hits, by 1.
C8_ExactlyOneCounter ==
    [][TerminalStep =>
         /\ Stats'.success_count \in {Stats.success_count,
                                      Stats.success_count + 1}
         /\ Stats'.failure_count \in {Stats.failure_count,
                                      Stats.failure_count + 1}
         /\ Stats'.rate_limit_hits \in {Stats.rate_limit_hits,
                                        Stats.rate_limit_hits + 1}
         /\ Stats'.success_count + Stats'.failure_count
              + Stats'.rate_limit_hits
            = Stats.success_count + Stats.failure_count
              + Stats.rate_limit_hits + 1]_vars

\* C8 (amended): every outcome reported to update increments exactly one of
\* success_count and failure_count by 1; rate_limit_hits is incremented as
\* well, by 1, exactly when the outcome is a failure whose text matches a
\* rate-limit indicator; a disk-capacity failure changes no counter.
C8_CountersPerOutcome ==
    [][TerminalStep =>
         IF ev'.op = "update"
         THEN /\ Stats'.success_count =
                   Stats.success_count + (IF ev'.success THEN 1 ELSE 0)
              /\ Stats'.failure_count =
                   Stats.failure_count + (IF ev'.success THEN 0 ELSE 1)
              /\ Stats'.rate_limit_hits =
                   Stats.rate_limit_hits
                   + (IF ~ev'.success /\ NamesRateLimit(ev'.text) THEN 1 ELSE 0)
         ELSE /\ ev'.op = "disk_check"
              /\ ~ev'.ok
              /\ Stats' = Stats]_vars

\* C8 witness: an item's download failed with a rate-limit error: one failure
\* and one rate-limit hit were counted.
C8_Witness ==
    /\ ev.op = "update"
    /\ ~ev.success
    /\ NamesRateLimit(ev.text)
    /\ Stats.failure_count = 1
    /\ Stats.rate_limit_hits = 1
    /\ Stats.success_count = 0

\* C9: update(False, text) with text matching a rate-limit indicator sets
\* current_delay to min(2 * previous delay, MAX_DELAY) and increments
\* rate_limit_hits by exactly 1; from 4 the result is 8, from any delay >= 15
\* it is 30.
C9_RateLimitDoubles ==
    [][(FailureUpdateStep /\ NamesRateLimit(ev'.text)) =>
         /\ Delay' = (IF Less(Rat(MAX_DELAY), <<2 * Delay[1], Delay[2]>>)
                      THEN Rat(MAX_DELAY)
                      ELSE Norm(2 * Delay[1], Delay[2]))
         /\ ev'.returns = Delay'
         /\ Stats'.rate_limit_hits = Stats.rate_limit_hits + 1
         /\ (Delay = Rat(4) => Delay' = Rat(8))
         /\ (Leq(Rat(15), Delay) => Delay' = Rat(30))]_vars

\* C9 witness: the third rate-limited failure in a row: 4 -> 8 -> 16 -> 30.
C9_Witness ==
    /\ ev.op = "update"
    /\ ~ev.success
    /\ NamesRateLimit(ev.text)
    /\ Stats.rate_limit_hits = 3
    /\ Stats.failure_count = 3
    /\ Delay = Rat(MAX_DELAY)

\* the text holds a content indicator and no rate-limit indicator
C10_ContentInvalid(text) ==
    /\ \E k \in DOMAIN text :
          text[k] \in {"NoneType", "unsupported operand", "slideshow",
                       "index out of range"}
    /\ ~NamesRateLimit(text)

\* C10: update(False, text) with a content-invalid text returns the
\* current_delay of before the call and leaves consecutive_failures at 0,
\* whatever the state before the call.
C10_ContentKeepsDelay ==
    [][(FailureUpdateStep /\ C10_ContentInvalid(ev'.text)) =>
         /\ ev'.returns = Delay
         /\ Delay' = Delay
         /\ rate_limiter'.consecutive_failures = 0]_vars

\* C10 witness: a content-invalid failure right after a generic failure had
\* raised the delay to 6 and consecutive_failures to 1.
C10_Witness ==
    /\ ev.op = "update"
    /\ ~ev.success
    /\ C10_ContentInvalid(ev.text)
    /\ Stats.failure_count = 2
    /\ Stats.rate_limit_hits = 0
    /\ Delay = Rat(6)
    /\ rate_limiter.consecutive_failures = 0

\* a step of SpecRL or Spec that called update(True, ...) and got its delay
SuccessUpdateStep == ev'.op = "update" /\ ev'.success /\ ~ev'.raised

\* the estimate of _get_hourly_rate a success update works with
EstimatedRate == HourlyRate(rate_limiter'.hourly_downloads, now')

\* the delay lowered by the given percentage, floored at MIN_DELAY
Lowered(delay, percent) ==
    LET cut == Norm(delay[1] * (100 - percent), delay[2] * 100)
    IN IF Less(cut, Rat(MIN_DELAY)) THEN Rat(MIN_DELAY) ELSE cut

\* C11 (the claim as stated): a success update that brings
\* consecutive_successes to at least SUCCESS_STREAK_THRESHOLD while the
\* estimated hourly rate is at most TARGET_HOURLY_RATE lowers current_delay by
\* exactly 5%, floored at MIN_DELAY.
C11_FivePercentAtTarget ==
    [][(/\ SuccessUpdateStep
        /\ rate_limiter'.consecutive_successes >= SUCCESS_STREAK_THRESHOLD
        /\ EstimatedRate <= TARGET_HOURLY_RATE)
       => Delay' = Lowered(Delay, 5)]_vars

\* C11 (amended): a success update that brings consecutive_successes to at
\* least SUCCESS_STREAK_THRESHOLD lowers current_delay, floored at MIN_DELAY,
\* only when the hourly window holds at least 5 successes: by 15% when the
\* estimated hourly rate is at most TARGET_HOURLY_RATE and by 5% when it is
\* above; with fewer than 5 successes in the window, or a shorter streak, the
\* delay is unchanged.
C11_StreakReduction ==
    [][SuccessUpdateStep =>
         Delay' =
           IF /\ rate_limiter'.consecutive_successes
                   >= SUCCESS_STREAK_THRESHOLD
              /\ Len(rate_limiter'.hourly_downloads) >= 5
           THEN IF EstimatedRate <= TARGET_HOURLY_RATE
                THEN Lowered(Delay, 15)
                ELSE Lowered(Delay, 5)
           ELSE Delay]_vars

\* C11 witness: the fifth success of a streak, at a rate within the target,
\* lowered the delay from 4 to 3.4.
C11_Witness ==
    /\ ev.op = "update"
    /\ ev.success
    /\ ~ev.raised
    /\ Stats.success_count = 5
    /\ Stats.failure_count = 0
    /\ rate_limiter.consecutive_successes = 5
    /\ Len(rate_limiter.hourly_downloads) = 5
    /\ HourlyRate(rate_limiter.hourly_downloads, now) <= TARGET_HOURLY_RATE
    /\ Delay = <<17, 5>>

\* C12: an item that failed for a reason other than the disk gate (metadata
\* fetch exhausted, download failed, content-invalid, or an exception inside
\* download_video) never stops the batch: the driver goes on to the next
\* item while one is left, and the next step of the loop hands that item to
\* download_video.
C12_FailureContinuesBatch ==
    [][/\ ((pc = "returned" /\ ~result /\ ev.op = "update") =>
             /\ pc' = IF i < Len(videos_to_download) THEN "loop" ELSE "stats"
             /\ UNCHANGED batchVars)
       /\ (pc = "loop" =>
             /\ i < Len(videos_to_download)
             /\ i' = i + 1
             /\ ev'.op = "download_video"
             /\ ev'.id = videos_to_download[i + 1]
             /\ ~ev'.skipped
             /\ pc' = "metadata")]_vars

\* C12 witness: the first item of a batch failed after update counted its
\* failure, and the metadata fetch of the second item is about to start.
C12_Witness ==
    /\ pc = "metadata"
    /\ ev.op = "download_video"
    /\ caller = "batch"
    /\ i = 2
    /\ calls = 1
    /\ Stats.failure_count = 1
    /\ Stats.success_count = 0

\* a step that ends a run of process_videos
BatchEnds ==
    \/ ev'.op = "process_videos" /\ pc' = "idle"
    \/ caller = "batch" /\ pc' = "idle"

\* C13 (the claim as stated): every run of the batch driver, whatever the
\* input list, ends by emitting the final session counts.
C13_EveryRunEmitsCounts ==
    [][BatchEnds => (ev'.op = "final_stats" /\ ev'.stats = Stats')]_vars

\* C13 (amended): every run of the batch driver that finds at least one id
\* outside the history goes through its items and ends by emitting the final
\* session counts; a run that finds none returns at once and emits no counts.
C13_RunWithNewItemsEmitsCounts ==
    /\ [][/\ (ev'.op = "process_videos" =>
                 IF \A k \in DOMAIN ev'.videos :
                        ev'.videos[k] \in download_history
                 THEN pc' = "idle" /\ ev'.new = 0
                 ELSE pc' = "loop" /\ ev'.new > 0)
           /\ ((caller = "batch" /\ pc' = "idle") =>
                 /\ pc = "stats"
                 /\ i = Len(videos_to_download)
                 /\ ev'.op = "final_stats"
                 /\ ev'.stats = Stats')]_vars
    /\ ((ev.op = "process_videos" /\ ev.new > 0)
          ~> (ev.op = "final_stats" /\ pc = "idle"))

\* C13 witness: a batch of two new items, one downloaded and one failed,
\* ended with its counts.
C13_Witness ==
    /\ ev.op = "final_stats"
    /\ pc = "idle"
    /\ ev.stats.success_count = 1
    /\ ev.stats.failure_count = 1

\* the file holds exactly the given ids (a file never written holds none)
Persisted(file, ids) ==
    IF file.state = "written" THEN file.content = ids
    ELSE file.state = "absent" /\ ids = {}

C15_ProgressSurvivesInterruption ==
    [][ev'.op = "interrupt" =>
         /\ pc' = "idle"
         /\ (disk_history.state = "written" =>
               disk_history.content \subseteq download_history')]_vars

\* C15: a run was interrupted while it wrote the history after its second
\* download; the file is truncated, the id persisted by the first download
\* is gone from it and the next process cannot load it.
C15_Witness ==
    /\ pc = "init_failed"
    /\ disk_history = TruncatedFile
    /\ disk_metadata = Written({"v1"})
    /\ download_history = {}

\* the ids a history file holds
PersistedIds(file) == IF file.state = "written" THEN file.content ELSE {}

AllNewer(window, t, span) ==
    \A k \in DOMAIN window : t - window[k] < span

\* C17 (the claim as stated): after every update call, success or failure,
\* the failure window holds only timestamps less than RATE_LIMIT_WINDOW old
\* and the success window holds only timestamps less than 3600 s old.
C17_BothWindowsPruned ==
    [][ev'.op = "update" =>
         /\ AllNewer(rate_limiter'.failures, now', RATE_LIMIT_WINDOW)
         /\ AllNewer(rate_limiter'.hourly_downloads, now', 3600)]_vars

\* C17 (amended): after every update call the failure window holds only
\* timestamps less than RATE_LIMIT_WINDOW old; the success window is pruned
\* by a success update (and by get_stats), after which it holds only
\* timestamps less than 3600 s old, while a failure update leaves the success
\* window as it was, stale timestamps included.
C17_WindowsPruned ==
    [][/\ (ev'.op = "update" =>
             /\ AllNewer(rate_limiter'.failures, now', RATE_LIMIT_WINDOW)
             /\ IF ev'.success \/ ev'.raised
                THEN AllNewer(rate_limiter'.hourly_downloads, now', 3600)
                ELSE rate_limiter'.hourly_downloads
                       = rate_limiter.hourly_downloads)
       /\ (ev'.op = "get_stats" =>
             /\ AllNewer(rate_limiter'.hourly_downloads, now', 3600)
             /\ rate_limiter'.failures = rate_limiter.failures)]_vars

\* C17 witness: a failure update made 3600 s after a success: the success
\* window still holds that success, the failure window only this failure.
C17_Witness ==
    /\ ev.op = "update"
    /\ ~ev.success
    /\ Len(rate_limiter.failures) = 1
    /\ \E k \in DOMAIN rate_limiter.hourly_downloads :
          now - rate_limiter.hourly_downloads[k] >= 3600

\* C18 (the claim as stated): every call of extract_info and of download is
\* configured with the user agent that is the session's current one at the
\* time of the call.
C18_CallsUseCurrentIdentity ==
    [][NetworkAttempt => ev'.user_agent = session_data]_vars

\* C18: the metadata fetch of the second item of a batch ran with the default
\* user agent although a download retry of the first item had rotated the
\* session to the first user agent of the list.
C18_Witness ==
    /\ ev.op = "extract_info"
    /\ i = 2
    /\ session_data = user_agents[1]
    /\ session_file = Written(user_agents[1])
    /\ ev.user_agent = DefaultUserAgent

\* the user agents of the rotation list
ListedAgents == {user_agents[k] : k \in DOMAIN user_agents}

C20_ContentChangesNothingElse ==
    [][(FailureUpdateStep /\ C10_ContentInvalid(ev'.text)) =>
         /\ Delay' = Delay
         /\ rate_limiter'.consecutive_failures = 0
         /\ rate_limiter'.consecutive_successes
              = rate_limiter.consecutive_successes
         /\ Len(rate_limiter'.failures) <= Len(rate_limiter.failures)
         /\ \A k \in DOMAIN rate_limiter'.failures :
               \E j \in DOMAIN rate_limiter.failures :
                   rate_limiter.failures[j] = rate_limiter'.failures[k]
         /\ rate_limiter'.hourly_downloads
              = rate_limiter.hourly_downloads]_vars

\* C20 (amended): a content-invalid failure update leaves current_delay and
\* the success window unchanged and consecutive_failures at 0; like every
\* other failure update it resets consecutive_successes to 0, appends its
\* timestamp to the pruned failure window and increments failure_count.
C20_ContentFailureEffect ==
    [][(FailureUpdateStep /\ C10_ContentInvalid(ev'.text)) =>
         /\ Delay' = Delay
         /\ rate_limiter'.consecutive_failures = 0
         /\ rate_limiter'.consecutive_successes = 0
         /\ Len(rate_limiter'.failures) >= 1
         /\ rate_limiter'.failures[Len(rate_limiter'.failures)] = now'
         /\ SubSeq(rate_limiter'.failures, 1,
                   Len(rate_limiter'.failures) - 1)
              = SelectSeq(rate_limiter.failures,
                          LAMBDA f : now' - f < 300)
         /\ rate_limiter'.hourly_downloads = rate_limiter.hourly_downloads
         /\ Stats'.failure_count = Stats.failure_count + 1
         /\ Stats'.success_count = Stats.success_count
         /\ Stats'.rate_limit_hits = Stats.rate_limit_hits]_vars

\* C20 witness: a content-invalid failure right after two successes: the
\* streak of successes is back at 0 and the failure is in the window.
C20_Witness ==
    /\ ev.op = "update"
    /\ ~ev.success
    /\ C10_ContentInvalid(ev.text)
    /\ Stats.success_count = 2
    /\ Stats.failure_count = 1
    /\ rate_limiter.consecutive_successes = 0
    /\ rate_limiter.consecutive_failures = 0
    /\ rate_limiter.failures = <<now>>
    /\ Len(rate_limiter.hourly_downloads) = 2

\* C21: when the metadata fetch of an item has used up its attempts, whatever
\* their error texts, the item is reported by update(False, text) with a text
\* of the content-invalid category: current_delay and rate_limit_hits are
\* unchanged, consecutive_failures is 0 afterwards and failure_count is
\* increased by 1.
C21_MetadataFailureIsContent ==
    [][pc = "metadata_failed" =>
         /\ attempts = 3
         /\ ev'.op = "update"
         /\ ~ev'.success
         /\ C10_ContentInvalid(ev'.text)
         /\ ev'.returns = Delay
         /\ Delay' = Delay
         /\ Stats'.rate_limit_hits = Stats.rate_limit_hits
         /\ rate_limiter'.consecutive_failures = 0
         /\ Stats'.failure_count = Stats.failure_count + 1
         /\ Stats'.success_count = Stats.success_count
         /\ ~result'
         /\ pc' \in {"returned", "idle"}]_vars

\* C21 witness: the first item of a batch used up its three metadata
\* attempts and was reported; the delay is still the initial one.
C21_Witness ==
    /\ ev.op = "update"
    /\ ev.text = MetadataFailedText
    /\ pc = "returned"
    /\ i = 1
    /\ faults = 3
    /\ Stats.failure_count = 1
    /\ Stats.rate_limit_hits = 0
    /\ rate_limiter.consecutive_failures = 0
    /\ Delay = Rat(INITIAL_DELAY)

\* C22 (the claim as stated): a download attempt that fails with a text the
\* rate limiter classifies as content-invalid is the item's last: the handler
\* goes to the update without a retry sleep, and the update leaves the delay
\* unchanged.
C22_ContentErrorEndsRetries ==
    [][/\ ((pc = "download_except" /\ C10_ContentInvalid(error_msg)) =>
             /\ pc' = "update"
             /\ ev'.op # "sleep")
       /\ ((pc = "update" /\ ~success /\ C10_ContentInvalid(error_msg)) =>
             Delay' = Delay)]_vars

\* C22: the first download attempt of an item failed with 'slideshow', the
\* handler slept 2 s and a second attempt is about to be made.
C22_Witness ==
    /\ pc = "download"
    /\ attempt = 1
    /\ ev.op = "sleep"
    /\ ev.why = "download retry"
    /\ ev.secs = Rat(2)
    /\ error_msg = <<"slideshow">>
    /\ Classify(error_msg) = "content"

\* the text holds one of the four content indicators, in any letter case
NamesContentAnyCase(text) ==
    \E k \in DOMAIN text :
        Lower(text[k]) \in {"nonetype", "unsupported operand", "slideshow",
                            "index out of range"}

\* the text holds one of the four content indicators as it is written
NamesContent(text) ==
    \E k \in DOMAIN text :
        text[k] \in {"NoneType", "unsupported operand", "slideshow",
                     "index out of range"}

\* what a failure update does, by the category it handles the failure as:
\* the rate-limit branch counts a hit, the content branch leaves
\* consecutive_failures at 0 and the delay alone, the generic branch counts
\* the failure in consecutive_failures
HandledAs(category) ==
    CASE category = "rate_limit" ->
           /\ Stats'.rate_limit_hits = Stats.rate_limit_hits + 1
           /\ rate_limiter'.consecutive_failures
                = rate_limiter.consecutive_failures + 1
      [] category = "content" ->
           /\ Stats'.rate_limit_hits = Stats.rate_limit_hits
           /\ rate_limiter'.consecutive_failures = 0
           /\ Delay' = Delay
      [] OTHER ->
           /\ Stats'.rate_limit_hits = Stats.rate_limit_hits
           /\ rate_limiter'.consecutive_failures
                = rate_limiter.consecutive_failures + 1

\* C23 (the claim as stated): a failure is handled as rate-limited when its
\* text holds a rate-limit indicator, else as content-invalid when it holds a
\* content indicator, else as generic, both matches being case-insensitive.
C23_CaseInsensitiveClassification ==
    [][FailureUpdateStep =>
         HandledAs(IF NamesRateLimit(ev'.text) THEN "rate_limit"
                   ELSE IF NamesContentAnyCase(ev'.text) THEN "content"
                   ELSE "generic")]_vars

\* C23 (amended): a failure is handled as rate-limited when its text holds a
\* rate-limit indicator in any letter case, else as content-invalid when it
\* holds a content indicator exactly as written ('NoneType', 'unsupported
\* operand', 'slideshow', 'index out of range'), else as generic; a text
\* matching both is rate-limited, and 'nonetype' or 'SLIDESHOW' is generic.
C23_OrderedClassification ==
    [][FailureUpdateStep =>
         HandledAs(IF NamesRateLimit(ev'.text) THEN "rate_limit"
                   ELSE IF NamesContent(ev'.text) THEN "content"
                   ELSE "generic")]_vars

\* C23 witness: a failure whose text holds both '429' and 'NoneType' doubled
\* the delay to 8, and a failure with the text 'nonetype' after it was
\* handled as the second generic failure in a row: 8 * (1 + 0.5 * 2) = 16.
C23_Witness ==
    /\ ev.op = "update"
    /\ ~ev.success
    /\ ev.text = <<"nonetype">>
    /\ NamesContentAnyCase(ev.text)
    /\ Stats.failure_count = 2
    /\ Stats.rate_limit_hits = 1
    /\ rate_limiter.consecutive_failures = 2
    /\ Delay = Rat(16)

\* the delay multiplied by 1 + 0.5 * m and capped at MAX_DELAY
Raised(delay, m) ==
    LET up == Norm(delay[1] * (2 + m), delay[2] * 2)
    IN IF Less(Rat(MAX_DELAY), up) THEN Rat(MAX_DELAY) ELSE up

\* C24: a failure update whose text is neither rate-limited nor
\* content-invalid sets current_delay to
\* min(previous delay * (1 + 0.5 * m), MAX_DELAY), m = min(k, 3), k being
\* consecutive_failures with this failure counted: the first generic failure
\* after a success multiplies by 1.5, the second by 2, the third and later by
\* 2.5, up to the cap.
C24_GenericBackoff ==
    [][(/\ FailureUpdateStep
        /\ ~NamesRateLimit(ev'.text)
        /\ ~NamesContent(ev'.text)) =>
         LET k == rate_limiter.consecutive_failures + 1
             m == IF k < 3 THEN k ELSE 3
         IN /\ rate_limiter'.consecutive_failures = k
            /\ Delay' = Raised(Delay, m)
            /\ ev'.returns = Delay'
            /\ (k = 1 => Delay' = Raised(Delay, 1))
            /\ (k = 2 => Delay' = Raised(Delay, 2))
            /\ (k >= 3 => Delay' = Raised(Delay, 3))]_vars

\* C24 witness: three generic failures in a row from the initial delay:
\* 4 * 1.5 = 6, 6 * 2 = 12, 12 * 2.5 = 30.
C24_Witness ==
    /\ ev.op = "update"
    /\ ~ev.success
    /\ ev.text = <<"connection reset">>
    /\ Stats.failure_count = 3
    /\ Stats.success_count = 0
    /\ Stats.rate_limit_hits = 0
    /\ rate_limiter.consecutive_failures = 3
    /\ Delay = Rat(30)

\* C25: a success update changes current_delay only when the hourly window
\* holds at least 5 samples and consecutive_successes is at least
\* SUCCESS_STREAK_THRESHOLD: to max(MIN_DELAY, 0.95 * delay) when the
\* estimated hourly rate exceeds TARGET_HOURLY_RATE, to
\* max(MIN_DELAY, 0.85 * delay) otherwise.  The rest of the state after the
\* update is the bookkeeping of the success alone, whether or not the rate is
\* below 80% of the target.
C25_SuccessUpdate ==
    [][SuccessUpdateStep =>
         LET samples == rate_limiter'.hourly_downloads
             streak == rate_limiter.consecutive_successes + 1
             changes == Len(samples) >= 5
                        /\ streak >= SUCCESS_STREAK_THRESHOLD
         IN /\ (Delay' # Delay => changes)
            /\ (changes /\ EstimatedRate > TARGET_HOURLY_RATE =>
                  Delay' = Lowered(Delay, 5))
            /\ (changes /\ EstimatedRate <= TARGET_HOURLY_RATE =>
                  Delay' = Lowered(Delay, 15))
            /\ rate_limiter'.consecutive_successes = streak
            /\ rate_limiter'.consecutive_failures = 0
            /\ Stats' = [Stats EXCEPT !.success_count = @ + 1]
            /\ samples =
                 SelectSeq(Append(rate_limiter.hourly_downloads, now'),
                           LAMBDA s : now' - s < 3600)
            /\ rate_limiter'.failures =
                 SelectSeq(rate_limiter.failures,
                           LAMBDA f : now' - f < RATE_LIMIT_WINDOW)]_vars

\* C25 witness: the sixth success of a streak, at an estimated rate below 80%
\* of the target, lowered the delay from 3.4 to 2.89.
C25_Witness ==
    /\ ev.op = "update"
    /\ ev.success
    /\ ~ev.raised
    /\ Stats.success_count = 6
    /\ rate_limiter.consecutive_successes = 6
    /\ Len(rate_limiter.hourly_downloads) = 6
    /\ 10 * HourlyRate(rate_limiter.hourly_downloads, now)
         < 8 * TARGET_HOURLY_RATE
    /\ Delay = <<289, 100>>

\* the steps of an item between the entry of download_video and its update
BeforeUpdate == {"metadata", "metadata_except", "download", "download_except"}
\* the steps of a downloaded item between its update and its return
AfterUpdate == {"save_history", "save_metadata", "post_success"}

\* C26 (the claim as stated): retry attempts never call update, and the one
\* update of a failed item is given the error text of the item's last failed
\* attempt.
C26_UpdateWithLastAttemptText ==
    [][/\ (pc \in BeforeUpdate => rate_limiter' = rate_limiter)
       /\ ((ev'.op = "update" /\ ~ev'.success) =>
             ev'.text = (IF pc = "metadata_failed" THEN last_error
                         ELSE error_msg))]_vars

\* C26 (amended): for each item that reaches the metadata fetch and is not
\* stopped by the disk gate, update is called exactly once, after the item's
\* last attempt and with the item's final success flag; the attempts and
\* their retry handlers never call it.  The text of a failed item is the
\* error text of the last failed download attempt when the download failed,
\* the fixed text of line 137 when the metadata fetch used up its attempts,
\* and the text of the exception when the filesize is None.
C26_UpdateOncePerItem ==
    [][/\ (pc \in BeforeUpdate =>
             rate_limiter' = rate_limiter /\ ev'.op # "update")
       /\ (pc \in AfterUpdate => ev'.op # "update")
       /\ (ev'.op = "update" =>
             /\ pc \in {"metadata_failed", "disk_check", "update"}
             /\ pc' \in (IF ev'.success THEN {"save_history"}
                          ELSE {"returned", "idle"})
             /\ UpdateCalls(rate_limiter') = UpdateCalls(rate_limiter) + 1)
       /\ (pc = "update" =>
             /\ ev'.op = "update"
             /\ ev.op \in {"download", "log"}
             /\ ev'.success = success
             /\ (~success => ev'.text = error_msg /\ error_msg # <<>>))
       /\ (pc = "metadata_failed" =>
             /\ ev'.op = "update"
             /\ ~ev'.success
             /\ ev'.text = MetadataFailedText)
       /\ ((pc = "disk_check" /\ ev'.op = "update") =>
             /\ metadata.filesize = NoneSize
             /\ ~ev'.success
             /\ ev'.text = TypeErrorText)
       /\ ((pc \notin {"idle", "loop", "returned", "stats"}
             /\ pc' \in {"returned", "idle"}) =>
             \/ ev'.op = "update" /\ ~ev'.success
             \/ pc = "post_success"
             \/ ev'.op = "disk_check" /\ ~ev'.ok)]_vars

\* C26 witness: the first item of a batch failed its three download attempts
\* and was reported once, with the text of the last one.
C26_Witness ==
    /\ ev.op = "update"
    /\ ~ev.success
    /\ ev.text = <<"connection reset">>
    /\ pc = "returned"
    /\ i = 1
    /\ faults = 3
    /\ UpdateCalls(rate_limiter) = 1
    /\ Delay = Rat(6)

\* C27: the metadata fetch of an item makes at most 3 calls, stops at the
\* first call that succeeds, sleeps 2 s after the first failed call and 4 s
\* after the second, and does not sleep after the third.
C27_MetadataRetries ==
    [][/\ (pc = "metadata" =>
             /\ attempts \in 0..2
             /\ ev'.op = "extract_info"
             /\ IF ev'.ok
                THEN pc' = "disk_check"
                ELSE pc' = "metadata_except" /\ attempts' = attempts + 1)
       /\ (ev'.op = "extract_info" => pc = "metadata")
       /\ ((pc' = "metadata" /\ pc # "metadata_except") => attempts' = 0)
       /\ (pc = "metadata_except" =>
             /\ attempts' = attempts
             /\ IF attempts = 1
                THEN pc' = "metadata" /\ ev'.op = "sleep" /\ ev'.secs = Rat(2)
                ELSE IF attempts = 2
                THEN pc' = "metadata" /\ ev'.op = "sleep" /\ ev'.secs = Rat(4)
                ELSE /\ attempts = 3
                     /\ pc' = "metadata_failed"
                     /\ ev'.op # "sleep")
       /\ (pc = "metadata_failed" => pc' # "metadata" \/ attempts' = 0)
       /\ ((ev'.op = "sleep" /\ ev'.why = "metadata retry") =>
             pc = "metadata_except")]_vars

\* C27 witness: the third call of an item's metadata fetch failed, after a
\* wait of 2 s and one of 4 s, and the fetch gave up without a further wait.
C27_Witness ==
    /\ pc = "metadata_failed"
    /\ attempts = 3
    /\ faults = 3
    /\ ev.op = "log"
    /\ ev.what = "metadata failed"

\* C28: the download of an item makes at most 3 calls, stops at the first
\* call that succeeds, sleeps 2 s after the first failed call and 4 s after
\* the second, and does not sleep after the last failed call.
C28_DownloadRetries ==
    [][/\ (pc = "download" =>
             /\ attempt \in 0..2
             /\ ev'.op = "download"
             /\ attempt' = attempt
             /\ pc' = (IF ev'.ok THEN "update" ELSE "download_except"))
       /\ (ev'.op = "download" => pc = "download")
       /\ ((pc' = "download" /\ pc # "download_except") => attempt' = 0)
       /\ (pc = "download_except" =>
             IF pc' = "download"
             THEN /\ attempt \in 0..1
                  /\ attempt' = attempt + 1
                  /\ ev'.op = "sleep"
                  /\ ev'.secs = (IF attempt = 0 THEN Rat(2) ELSE Rat(4))
             ELSE /\ pc' = "update"
                  /\ ev'.op # "sleep"
                  /\ (attempt = 2 \/ IsDownloadContentError(error_msg)))
       /\ (pc = "download_except" /\ attempt = 2 => pc' = "update")
       /\ (pc = "update" => pc' # "download")
       /\ ((ev'.op = "sleep" /\ ev'.why = "download retry") =>
             pc = "download_except")]_vars

\* C28 witness: the third call of an item's download failed, after a wait of
\* 2 s and one of 4 s, and the item went on to its report without a wait.
C28_Witness ==
    /\ pc = "update"
    /\ attempt = 2
    /\ faults = 3
    /\ ~success
    /\ ev.op = "log"
    /\ ev.what = "download failed"

\* the text contains 'Cookie' or, in any case, 'permission'
NamesIdentityBlock(text) ==
    \E k \in DOMAIN text : text[k] = "Cookie" \/ Lower(text[k]) = "permission"

\* C29: a metadata or download attempt that fails with an identity-blocked
\* error and is followed by another attempt triggers exactly one identity
\* rotation between the two attempts, and the following attempt is made with
\* the rotated identity.
C29_RotationBeforeRetry ==
    [][/\ ((pc = "metadata_except" /\ NamesIdentityBlock(last_error)
              /\ pc' = "metadata") =>
             /\ session_data' = RotateUserAgent(session_data)
             /\ session_data' # session_data
             /\ session_file' = Written(session_data')
             /\ ydl_opts'.user_agent = session_data')
       /\ (pc = "metadata" =>
             /\ ev'.op = "extract_info"
             /\ ev'.user_agent = ydl_opts.user_agent
             /\ UNCHANGED <<session_data, ydl_opts>>)
       /\ ((pc = "download_except" /\ NamesIdentityBlock(error_msg)
              /\ pc' = "download") =>
             /\ session_data' = RotateUserAgent(session_data)
             /\ session_data' # session_data
             /\ session_file' = Written(session_data')
             /\ download_opts'.user_agent = session_data')
       /\ (pc = "download" =>
             /\ ev'.op = "download"
             /\ ev'.user_agent = download_opts.user_agent
             /\ UNCHANGED <<session_data, download_opts>>)]_vars

\* C29 witness: the first download attempt of an item failed with
\* 'Permission denied'; the session moved once, from the default user agent
\* to the first of the list, and the second attempt ran with that one.
C29_Witness ==
    /\ ev.op = "download"
    /\ attempt = 1
    /\ error_msg = <<"Permission", "denied">>
    /\ ydl_opts.user_agent = DefaultUserAgent
    /\ session_data = user_agents[1]
    /\ ev.user_agent = user_agents[1]

\* C30: after a successful download the identity is rotated, once, exactly
\* when the success_count of the session after that success is a positive
\* multiple of 10, and after no other success.
C30_ProactiveRotation ==
    [][/\ ((pc = "update" /\ ev'.op = "update" /\ ev'.success) =>
             /\ Stats'.success_count = Stats.success_count + 1
             /\ UNCHANGED session_data)
       /\ (pc \in {"save_history", "save_metadata"} =>
             UNCHANGED <<Stats, session_data>>)
       /\ (pc = "post_success" =>
             LET n == Stats'.success_count IN
             /\ n = Stats.success_count
             /\ n > 0
             /\ IF \E m \in 1..LongVideos : n = 10 * m
                THEN /\ session_data' = RotateUserAgent(session_data)
                     /\ session_data' # session_data
                     /\ session_file' = Written(session_data')
                ELSE UNCHANGED <<session_data, session_file>>)]_vars

\* C30 witness: the tenth success of a run without failed attempts moved the
\* session from the default user agent to the first of the list.
C30_Witness ==
    /\ ev.op = "get_stats"
    /\ pc = "returned"
    /\ i = 10
    /\ faults = 0
    /\ Stats.success_count = 10
    /\ session_data = user_agents[1]
    /\ session_file = Written(user_agents[1])

\* no id occurs twice in the list
NoRepeats(list) ==
    \A j, k \in DOMAIN list : list[j] = list[k] => j = k

\* C31: a run of the batch driver terminates whatever the external
\* capability does: a call of the metadata fetch or of the download is made
\* only after fewer than 3 failed calls of that kind for the item, every item
\* that was begun reaches its outcome, the items are taken one by one in
\* list order, and no item is processed twice.
C31_BatchTerminates ==
    /\ [](caller = "batch" =>
            /\ NoRepeats(videos_to_download)
            /\ i \in 0..Len(videos_to_download)
            /\ (pc = "metadata" => attempts \in 0..2)
            /\ (pc = "download" => attempt \in 0..2)
            /\ (pc \notin {"loop", "stats"} =>
                  i >= 1 /\ video_id = videos_to_download[i]))
    /\ [][/\ ((caller = "batch" /\ caller' = "batch") =>
                 /\ videos_to_download' = videos_to_download
                 /\ i' \in {i, i + 1}
                 /\ (i' = i + 1 =>
                       pc = "loop" /\ pc' \in {"metadata", "returned"}))
           /\ (ev'.op = "extract_info" => attempts' <= 3)
           /\ (ev'.op = "download" => attempt' <= 2)]_vars
    /\ ((pc \in {"metadata", "download"}) ~> (pc \in {"returned", "idle"}))
    /\ ((caller = "batch") ~> (caller = "none" /\ pc = "idle"))

\* C31 witness: a batch of two items ended although the external capability
\* had raised three times; one item was downloaded and one was given up.
C31_Witness ==
    /\ ev.op = "final_stats"
    /\ pc = "idle"
    /\ caller = "none"
    /\ calls = 1
    /\ faults = 3
    /\ Stats.success_count = 1
    /\ Stats.failure_count = 1
    /\ download_history # {}

\* r <= s for two delays, compared over the least common denominator
NotAbove(r, s) ==
    LET g == GCD(r[2], s[2])
    IN r[1] * (s[2] \div g) <= s[1] * (r[2] \div g)

\* C32: a success update never increases current_delay and a failure update
\* never decreases it, whatever the state and the error text.
C32_DirectionallyMonotone ==
    [][ev'.op = "update" =>
         IF ev'.success
         THEN NotAbove(Delay', Delay)
         ELSE NotAbove(Delay, Delay')]_vars

\* C32 witness: five successes lowered the delay from 4 to 3.4 and the
\* generic failure that followed raised it to 5.1.
C32_Witness ==
    /\ ev.op = "update"
    /\ ~ev.success
    /\ Stats.success_count = 5
    /\ Stats.failure_count = 1
    /\ Delay = <<51, 10>>

\* C33: in every reachable state of the rate limiter, success_count +
\* failure_count is the number of update calls made so far, rate_limit_hits
\* is at most failure_count, and consecutive_successes and
\* consecutive_failures are never both greater than 0.
C33_CountersConsistent ==
    /\ Stats.success_count + Stats.failure_count = calls
    /\ Stats.rate_limit_hits <= Stats.failure_count
    /\ ~(rate_limiter.consecutive_successes > 0
          /\ rate_limiter.consecutive_failures > 0)

\* C33 witness: four update calls, two successes and two failures of which
\* one was rate-limited; the last call was a generic failure after a success.
C33_Witness ==
    /\ ev.op = "update"
    /\ ~ev.success
    /\ calls = 4
    /\ Stats.success_count = 2
    /\ Stats.failure_count = 2
    /\ Stats.rate_limit_hits = 1
    /\ rate_limiter.consecutive_failures = 1
    /\ rate_limiter.consecutive_successes = 0

\* C34: update and get_stats return a value and never raise, for any
\* sequence of calls under a non-decreasing clock; the hourly-rate
\* extrapolation is defined whenever the success window holds at least 5
\* samples, also when the oldest of them carries the current time.
C34_UpdateAndStatsTotal ==
    [][ev'.op \in {"update", "get_stats"} =>
         /\ ~ev'.raised
         /\ (Len(rate_limiter'.hourly_downloads) >= 5 =>
               now' - SeqMin(rate_limiter'.hourly_downloads) > 0)]_vars

\* C34 witness: five success updates under one clock reading; the fifth
\* divided 3600 by an elapsed time of zero and raised, after it had counted
\* the success and stored its sample, and without a change of the delay.
C34_Witness ==
    /\ ev.op = "update"
    /\ ev.success
    /\ ev.raised
    /\ Len(rate_limiter.hourly_downloads) = 5
    /\ SeqMin(rate_limiter.hourly_downloads) = now
    /\ Stats.success_count = 5
    /\ Delay = Rat(INITIAL_DELAY)

=============================================================================
